---- MODULE Spec2Model ----
(***************************************************************************)
(* MongoCaseRepository (src/db.py): the search pipeline                     *)
(*   search_cases = connect -> primary $text query -> fallback $regex query *)
(*                  -> _merge_documents -> _semantic_rerank -> [:limit]     *)
(* together with the lazily cached embedding model (_get_embedding_model).  *)
(*                                                                         *)
(* Optional values (a dict key that may be absent, a field that may be     *)
(* None) are sequences of length 0 or 1: <<>> is "absent", <<v>> is v.      *)
(***************************************************************************)
EXTENDS Integers, Sequences, FiniteSets, TLC

VARIABLES
    limit,          \* MongoCaseRepository.limit of the instance
    client,         \* MongoCaseRepository._client : "None" or "set"
    handle,         \* MongoCaseRepository._collection : "None" or "set"
    pc,             \* position of the search_cases call in flight
    query,          \* argument of the call in flight
    documents,      \* local `documents` of search_cases
    run_fallback,   \* local `run_fallback` of search_cases
    outcome,        \* how the call left search_cases: "returned" or the exception class
    result,         \* the returned list
    trace,          \* store / provider accesses of the call in flight, in order
    primary_seen,   \* what the primary find produced in this call
    fallback_seen,  \* what the fallback find produced in this call
    provider_seen,  \* what the embedding provider did in this call
    cache,          \* lru_cache of _get_embedding_model: 0 = empty, n = instance n
    constructed,    \* number of SentenceTransformer(...) constructions completed
    tpc,            \* per thread: position inside the lru_cache wrapper
    got,            \* per thread: instance returned by its last completed call
    in_primary,     \* argument `primary` / `documents` of the function under test
    in_secondary,   \* argument `secondary` of _merge_documents
    in_provider,    \* behaviour of the embedding provider for _semantic_rerank
    out,            \* value produced by the function under test
    fpc             \* "args" before, "done" after the function under test ran

vars == <<limit, client, handle, pc, query, documents, run_fallback, outcome,
          result, trace, primary_seen, fallback_seen, provider_seen, cache,
          constructed, tpc, got, in_primary, in_secondary, in_provider, out, fpc>>

repoVars == <<limit, client, handle, pc, query, documents, run_fallback, outcome,
              result, trace, primary_seen, fallback_seen, provider_seen>>
threadVars == <<tpc, got>>
fnVars == <<in_primary, in_secondary, in_provider, out, fpc>>

----------------------------------------------------------------------------
(* Bounds *)

MaxLimit == 2       \* largest `limit` an instance is configured with
MaxScore == 1       \* similarity scores range over 0..MaxScore
MaxLen == 2         \* longest argument list of the functions checked alone
NThreads == 3       \* concurrent callers of _get_embedding_model

Limits == 1..MaxLimit
Scores == 0..MaxScore
Threads == 1..NThreads

----------------------------------------------------------------------------
(* Documents *)

None == <<>>
Some(v) == <<v>>

\* Raw `_id` values of stored records: an ObjectId or a string.
ObjectId(hex) == [kind |-> "ObjectId", val |-> hex]
StrId(s) == [kind |-> "str", val |-> s]

\* str(identifier): str(ObjectId(h)) is the hex string h, str(s) is s.
Str(identifier) == identifier.val

\* Records the store holds.  A stored record has a unique `_id`; rows of a
\* view that projects `_id` away have none and may repeat.
RawRecord(id, title) == [_id |-> id, title |-> Some(title), none |-> FALSE]
NoneRecord == [_id |-> None, title |-> None, none |-> TRUE]

StoredRecords ==
    { RawRecord(Some(ObjectId("a")), "t1"),
      RawRecord(Some(StrId("a")), "t2"),
      RawRecord(Some(ObjectId("b")), "t1"),
      RawRecord(None, "t1"),
      RawRecord(None, "t2") }

\* A cursor yields the record with the projection applied; the text
\* projection adds the textScore under "score".
WithScore(raw, s) == [_id |-> raw._id, title |-> raw.title, none |-> raw.none, score |-> s]

EmptyDocument == [_id |-> None, title |-> None]

_normalise_document(document) ==
    IF document.none
    THEN EmptyDocument
    ELSE [_id |-> IF document._id # None THEN Some(Str(document._id[1])) ELSE None,
          title |-> document.title]

NormaliseAll(cursor) == [i \in 1..Len(cursor) |-> _normalise_document(cursor[i])]

\* isinstance(document.get("_id"), str)
HasStrId(document) == document._id # None

----------------------------------------------------------------------------
(* _merge_documents *)

\* seen = {document["_id"] for document in primary if isinstance(..., str)}
SeenIds(primary) ==
    { primary[i]._id[1] : i \in { j \in 1..Len(primary) : HasStrId(primary[j]) } }

\* `document in merged`: list membership by dict equality
Contains(merged, document) == \E i \in 1..Len(merged) : merged[i] = document

\* the loop `for document in secondary`
RECURSIVE MergeLoop(_, _, _)
MergeLoop(merged, seen, rest) ==
    IF rest = <<>>
    THEN merged
    ELSE LET document == Head(rest)
             identifier == document._id
         IN  IF HasStrId(document)
             THEN IF identifier[1] \in seen
                  THEN MergeLoop(merged, seen, Tail(rest))
                  ELSE MergeLoop(Append(merged, document),
                                 seen \cup {identifier[1]}, Tail(rest))
             ELSE IF Contains(merged, document)
                  THEN MergeLoop(merged, seen, Tail(rest))
                  ELSE MergeLoop(Append(merged, document), seen, Tail(rest))

\* the same with `seen` started empty instead of from the primary identifiers
MergeSeenStartsEmpty(primary, secondary) ==
    IF secondary = <<>>
    THEN primary
    ELSE MergeLoop(primary, {}, secondary)

_merge_documents(primary, secondary) ==
    IF secondary = <<>>
    THEN primary
    ELSE MergeLoop(primary, SeenIds(primary), secondary)

----------------------------------------------------------------------------
(* _semantic_rerank *)

Reverse(s) == [i \in 1..Len(s) |-> s[Len(s) + 1 - i]]

\* insert item behind every element whose key is <= its own (stable)
RECURSIVE InsertByKey(_, _)
InsertByKey(sortedItems, item) ==
    IF sortedItems = <<>>
    THEN <<item>>
    ELSE IF Head(sortedItems)[1] <= item[1]
         THEN <<Head(sortedItems)>> \o InsertByKey(Tail(sortedItems), item)
         ELSE <<item>> \o sortedItems

RECURSIVE StableSortAscending(_)
StableSortAscending(items) ==
    IF items = <<>>
    THEN <<>>
    ELSE InsertByKey(StableSortAscending(SubSeq(items, 1, Len(items) - 1)),
                     items[Len(items)])

\* a descending sort got by reversing an ascending one: ties come out reversed
SortedThenReversed(items) == Reverse(StableSortAscending(items))

\* sorted(items, key=lambda item: item[0], reverse=True): list.sort reverses
\* the list, sorts it stably in ascending key order, and reverses it again.
SortedReverse(items) == Reverse(StableSortAscending(Reverse(items)))

\* zip(scores.tolist(), documents)
Zip(scores, docs) == [i \in 1..Len(docs) |-> <<scores[i], docs[i]>>]

\* Points at which the embedding path can raise.  The first four lie inside
\* the try block (lines 160-170), "similarity" is the matrix product of
\* line 172, behind it.
InsideTry == {"model", "doc_texts", "encode_query", "encode_documents"}
ProviderFailures == InsideTry \cup {"similarity"}

\* provider = [fail |-> "no" or a point of ProviderFailures,
\*             scores |-> the similarities, one per document]
\* Result: raised, the value returned, and whether the provider was called.
_semantic_rerank(docs, provider) ==
    IF Len(docs) <= 1
    THEN [raised |-> FALSE, value |-> docs, called |-> FALSE]
    ELSE IF provider.fail \in InsideTry
    THEN [raised |-> FALSE, value |-> docs, called |-> TRUE]
    ELSE IF provider.fail = "similarity"
    THEN [raised |-> TRUE, value |-> <<>>, called |-> TRUE]
    ELSE LET ranked == SortedReverse(Zip(provider.scores, docs))
         IN  [raised |-> FALSE,
              value |-> [i \in 1..Len(ranked) |-> ranked[i][2]],
              called |-> TRUE]

\* reranked[: self.limit]
Take(s, n) == SubSeq(s, 1, IF Len(s) < n THEN Len(s) ELSE n)

----------------------------------------------------------------------------
(* The store, as pymongo presents it *)

\* Query strings, as sequences of characters.
Queries == { <<>>, <<" ">>, <<"k">> }

\* Why a find can fail, and the pymongo.errors class it is raised as.
\* Every class is a PyMongoError; OperationFailure is the class of all
\* errors the server answers a command with.
FailureReasons == {"no_text_index", "unauthorized", "unreachable", "network_timeout"}

ExceptionClass(reason) ==
    CASE reason = "no_text_index"   -> "OperationFailure"
      [] reason = "unauthorized"    -> "OperationFailure"
      [] reason = "unreachable"     -> "ServerSelectionTimeoutError"
      [] reason = "network_timeout" -> "NetworkTimeout"

\* Lists a find(..., limit=n) can yield, n > 0: at most n records, no stored
\* record twice (records without `_id` are rows that may repeat).
ResultLists(n) ==
    { c \in UNION { [1..k -> StoredRecords] : k \in 0..n } :
        \A i, j \in 1..Len(c) : (i # j /\ c[i]._id # None) => c[i] # c[j] }

\* the cursor of the $text query carries the textScore of each record
TextCursor(c) == [i \in 1..Len(c) |-> WithScore(c[i], Some(Len(c) - i))]
\* fallback_projection = projection without "score"
RegexCursor(c) == [i \in 1..Len(c) |-> WithScore(c[i], None)]

NotRun == [status |-> "not_run", docs |-> <<>>]
Found(docs) == [status |-> "ok", docs |-> docs]
Failed(reason) == [status |-> reason, docs |-> <<>>]

NotCalled == [fail |-> "not_called", scores |-> <<>>]
ProviderBehaviours(n) ==
    { [fail |-> "no", scores |-> sc] : sc \in [1..n -> Scores] }
    \cup { [fail |-> f, scores |-> <<>>] : f \in ProviderFailures }

----------------------------------------------------------------------------
(* MongoCaseRepository *)

\* how the call in flight ends
Raise(cls) ==
    /\ pc' = "done"
    /\ outcome' = cls
    /\ result' = <<>>

ReturnValue(value) ==
    /\ pc' = "done"
    /\ outcome' = "returned"
    /\ result' = value

\* search_cases, lines 50-53: the empty-query return and collection_handle,
\* which runs _connect when no collection is held.
ConnectOutcomes == {"ok", "invalid_uri", "ping_failed"}

Call ==
    /\ pc \in {"idle", "done"}
    /\ \E q \in Queries :
        /\ query' = q
        /\ documents' = <<>>
        /\ run_fallback' = FALSE
        /\ primary_seen' = NotRun
        /\ fallback_seen' = NotRun
        /\ provider_seen' = NotCalled
        /\ IF Len(q) = 0     \* `if not query`
           THEN /\ ReturnValue(<<>>)
                /\ trace' = <<>>
                /\ UNCHANGED <<client, handle>>
           ELSE IF handle # "None" \/ client # "None"
           THEN \* a collection is held, or _connect returns at once
                /\ pc' = "primary"
                /\ outcome' = "pending"
                /\ result' = <<>>
                /\ trace' = <<>>
                /\ UNCHANGED <<client, handle>>
           ELSE \E conn \in ConnectOutcomes :
                /\ trace' = <<"connect">>
                /\ CASE conn = "ok" ->
                          /\ client' = "set"
                          /\ handle' = "set"
                          /\ pc' = "primary"
                          /\ outcome' = "pending"
                          /\ result' = <<>>
                     [] conn = "invalid_uri" ->
                          \* MongoClient(...) raises: _client is not assigned
                          /\ UNCHANGED <<client, handle>>
                          /\ Raise("RepositoryError")
                     [] conn = "ping_failed" ->
                          \* _client is assigned, the ping raises
                          /\ client' = "set"
                          /\ UNCHANGED handle
                          /\ Raise("RepositoryError")
    /\ UNCHANGED <<limit, cache, constructed>>

\* search_cases, lines 68-85: the primary $text find
Primary ==
    /\ pc = "primary"
    /\ IF handle = "None"
       THEN \* collection is None: None.find raises AttributeError, which
            \* neither except clause catches
            /\ Raise("AttributeError")
            /\ UNCHANGED <<documents, run_fallback, trace, primary_seen>>
       ELSE /\ trace' = Append(trace, "primary")
            /\ \/ \E c \in ResultLists(limit) :
                    /\ documents' = NormaliseAll(TextCursor(c))
                    /\ primary_seen' = Found(documents')
                    /\ pc' = "fallback"
                    /\ UNCHANGED <<run_fallback, outcome, result>>
               \/ \E reason \in FailureReasons :
                    /\ primary_seen' = Failed(reason)
                    /\ IF ExceptionClass(reason) = "OperationFailure"
                       THEN /\ run_fallback' = TRUE
                            /\ pc' = "fallback"
                            /\ UNCHANGED <<documents, outcome, result>>
                       ELSE /\ Raise("RepositoryError")
                            /\ UNCHANGED <<documents, run_fallback>>
    /\ UNCHANGED <<limit, client, handle, query, fallback_seen, provider_seen,
                   cache, constructed>>

\* search_cases, lines 87-89, with _fallback_search
Fallback ==
    /\ pc = "fallback"
    /\ IF run_fallback \/ Len(documents) < limit
       THEN /\ trace' = Append(trace, "fallback")
            /\ \/ \E c \in ResultLists(limit) :
                    LET fallback_documents == NormaliseAll(RegexCursor(c))
                    IN  /\ documents' = _merge_documents(documents, fallback_documents)
                        /\ fallback_seen' = Found(fallback_documents)
                        /\ pc' = "rerank"
                        /\ UNCHANGED <<outcome, result>>
               \/ \E reason \in FailureReasons \ {"no_text_index"} :
                    \* nothing catches what _fallback_search raises
                    /\ fallback_seen' = Failed(reason)
                    /\ Raise(ExceptionClass(reason))
                    /\ UNCHANGED documents
       ELSE /\ pc' = "rerank"
            /\ UNCHANGED <<documents, trace, fallback_seen, outcome, result>>
    /\ UNCHANGED <<limit, client, handle, query, run_fallback, primary_seen,
                   provider_seen, cache, constructed>>

\* search_cases, lines 91-92
Rerank ==
    /\ pc = "rerank"
    /\ \E provider \in ProviderBehaviours(Len(documents)) :
        LET r == _semantic_rerank(documents, provider)
            constructs == r.called /\ cache = 0 /\ provider.fail # "model"
        IN  \* a cached model is handed out without running the constructor
            /\ (provider.fail = "model") => (cache = 0)
            /\ provider_seen' = IF r.called THEN provider ELSE NotCalled
            /\ trace' = IF r.called THEN trace \o <<"rerank", "embed">>
                                    ELSE Append(trace, "rerank")
            /\ cache' = IF constructs THEN constructed + 1 ELSE cache
            /\ constructed' = IF constructs THEN constructed + 1 ELSE constructed
            /\ IF r.raised
               THEN Raise("Exception")
               ELSE ReturnValue(Take(r.value, limit))
    /\ UNCHANGED <<limit, client, handle, query, documents, run_fallback,
                   primary_seen, fallback_seen>>

\* close
Close ==
    /\ pc \in {"idle", "done"}
    /\ IF client # "None"
       THEN /\ client' = "None"
            /\ handle' = "None"
       ELSE UNCHANGED <<client, handle>>
    /\ UNCHANGED <<limit, pc, query, documents, run_fallback, outcome, result,
                   trace, primary_seen, fallback_seen, provider_seen, cache,
                   constructed>>

ThreadsIdle ==
    /\ tpc = [t \in Threads |-> "idle"]
    /\ got = [t \in Threads |-> 0]

FnIdle ==
    /\ in_primary = <<>>
    /\ in_secondary = <<>>
    /\ in_provider = NotCalled
    /\ out = <<>>
    /\ fpc = "idle"

RepoInit ==
    /\ client = "None"
    /\ handle = "None"
    /\ pc = "idle"
    /\ query = <<>>
    /\ documents = <<>>
    /\ run_fallback = FALSE
    /\ outcome = "pending"
    /\ result = <<>>
    /\ trace = <<>>
    /\ primary_seen = NotRun
    /\ fallback_seen = NotRun
    /\ provider_seen = NotCalled

Init ==
    /\ limit \in Limits
    /\ RepoInit
    /\ cache = 0
    /\ constructed = 0
    /\ ThreadsIdle
    /\ FnIdle

Next ==
    \/ Call /\ UNCHANGED <<threadVars, fnVars>>
    \/ Primary /\ UNCHANGED <<threadVars, fnVars>>
    \/ Fallback /\ UNCHANGED <<threadVars, fnVars>>
    \/ Rerank /\ UNCHANGED <<threadVars, fnVars>>
    \/ Close /\ UNCHANGED <<threadVars, fnVars>>

Spec == Init /\ [][Next]_vars

----------------------------------------------------------------------------
(* _get_embedding_model under concurrent callers.                           *)
(* functools.lru_cache looks the key up, and on a miss calls the wrapped    *)
(* function with no lock held; when the call returns it stores the result   *)
(* unless the key was stored meanwhile, and returns the result it computed. *)

\* the wrapper's cache lookup
Lookup(t) ==
    /\ tpc[t] \in {"idle", "returned"}
    /\ IF cache # 0
       THEN /\ got' = [got EXCEPT ![t] = cache]
            /\ tpc' = [tpc EXCEPT ![t] = "returned"]
       ELSE /\ tpc' = [tpc EXCEPT ![t] = "miss"]
            /\ UNCHANGED got
    /\ UNCHANGED <<cache, constructed>>

\* SentenceTransformer("all-MiniLM-L6-v2") runs to completion, or raises
Construct(t) ==
    /\ tpc[t] = "miss"
    /\ \/ /\ constructed' = constructed + 1
          /\ got' = [got EXCEPT ![t] = constructed + 1]
          /\ tpc' = [tpc EXCEPT ![t] = "built"]
       \/ /\ tpc' = [tpc EXCEPT ![t] = "idle"]
          /\ UNCHANGED <<constructed, got>>
    /\ UNCHANGED cache

\* the wrapper stores the result and returns it
Store(t) ==
    /\ tpc[t] = "built"
    /\ cache' = IF cache # 0 THEN cache ELSE got[t]
    /\ tpc' = [tpc EXCEPT ![t] = "returned"]
    /\ UNCHANGED <<constructed, got>>

InitEmbed ==
    /\ limit = 1
    /\ RepoInit
    /\ cache = 0
    /\ constructed = 0
    /\ ThreadsIdle
    /\ FnIdle

NextEmbed ==
    \/ \E t \in Threads : Lookup(t) /\ UNCHANGED <<repoVars, fnVars>>
    \/ \E t \in Threads : Construct(t) /\ UNCHANGED <<repoVars, fnVars>>
    \/ \E t \in Threads : Store(t) /\ UNCHANGED <<repoVars, fnVars>>

SpecEmbed == InitEmbed /\ [][NextEmbed]_vars

----------------------------------------------------------------------------
(* _merge_documents and _semantic_rerank on arbitrary argument lists *)

IdValues == {"", "a"}
Titles == {"t1", "t2"}

\* normalised documents: `_id` absent or a string
Documents ==
    { [_id |-> i, title |-> Some(t)] :
        i \in {None} \cup { Some(v) : v \in IdValues }, t \in Titles }

DocumentLists(n) == UNION { [1..k -> Documents] : k \in 0..n }

InitFn(primaries, secondaries) ==
    /\ limit = 1
    /\ RepoInit
    /\ cache = 0
    /\ constructed = 0
    /\ ThreadsIdle
    /\ fpc = "args"
    /\ out = <<>>
    /\ in_primary \in primaries
    /\ in_secondary \in secondaries
    /\ in_provider \in {NotCalled} \cup ProviderBehaviours(Len(in_primary))

InitMerge ==
    /\ InitFn(DocumentLists(MaxLen), DocumentLists(MaxLen))
    /\ in_provider = NotCalled

MergeCall ==
    /\ fpc = "args"
    /\ out' = _merge_documents(in_primary, in_secondary)
    /\ fpc' = "done"
    /\ UNCHANGED <<in_primary, in_secondary, in_provider>>

NextMerge == MergeCall /\ UNCHANGED <<repoVars, threadVars, cache, constructed>>

SpecMerge == InitMerge /\ [][NextMerge]_vars

InitRerank ==
    /\ InitFn(DocumentLists(MaxLen + 1), {<<>>})
    /\ in_provider # NotCalled

RerankCall ==
    /\ fpc = "args"
    /\ out' = _semantic_rerank(in_primary, in_provider)
    /\ fpc' = "done"
    /\ UNCHANGED <<in_primary, in_secondary, in_provider>>

NextRerank == RerankCall /\ UNCHANGED <<repoVars, threadVars, cache, constructed>>

SpecRerank == InitRerank /\ [][NextRerank]_vars

----------------------------------------------------------------------------
(* Claims *)

Count(seq, e) == Cardinality({ i \in 1..Len(seq) : seq[i] = e })
Issued(e) == Count(trace, e) > 0

\* str.strip() leaves nothing
IsBlank(q) == \A i \in 1..Len(q) : q[i] = " "

Returned == pc = "done" /\ outcome = "returned"

\* C1: a search for a non-empty query that returns, returns at most `limit`
\* documents, and no two of them carry the same non-empty string _id.
C1_AtMostLimitDistinctIds ==
    (Returned /\ Len(query) > 0) =>
        /\ Len(result) <= limit
        /\ \A i, j \in 1..Len(result) :
              (i < j /\ HasStrId(result[i]) /\ result[i]._id[1] # "")
                  => result[i]._id # result[j]._id

\* C2: once the primary find has failed for a reason other than a missing
\* text index, the call has raised RepositoryError and has run neither the
\* fallback find nor the rerank step.
C2_OtherPrimaryFailureIsFatal ==
    (primary_seen.status \in FailureReasons \ {"no_text_index"}) =>
        /\ pc = "done"
        /\ outcome = "RepositoryError"
        /\ ~Issued("fallback")
        /\ ~Issued("rerank")

\* C3: a call made on a connected repository ends by returning a list or by
\* raising RepositoryError, and it returns a list whenever what failed was
\* the text index, the fallback find or the embedding path.
C3_OnlyRepositoryErrorLeaves ==
    (pc = "done" /\ handle = "set") =>
        /\ outcome \in {"returned", "RepositoryError"}
        /\ (\/ primary_seen.status = "no_text_index"
            \/ fallback_seen.status \in FailureReasons
            \/ provider_seen.fail \in ProviderFailures) => outcome = "returned"

\* what _semantic_rerank is to return for the merged list, given what the
\* provider did in this call
RerankedAs(merged, provider) ==
    IF provider.fail = "no"
    THEN _semantic_rerank(merged, provider).value
    ELSE merged

\* C4: a call whose primary find failed for want of a text index has, once
\* it has ended, raised nothing, issued the fallback find exactly once, and
\* returned the fallback documents merged into an empty primary list,
\* reranked and cut to `limit`.
C4_UnsupportedPrimaryFallsBack ==
    (pc = "done" /\ primary_seen.status = "no_text_index") =>
        /\ outcome = "returned"
        /\ Count(trace, "fallback") = 1
        /\ result = Take(RerankedAs(_merge_documents(<<>>, fallback_seen.docs),
                                    provider_seen), limit)

\* C5: a call with an empty or whitespace-only query returns the empty list
\* with no store access (no connection attempt, no find) and no reranking.
C5_BlankQueryTouchesNothing ==
    (pc # "idle" /\ IsBlank(query)) =>
        /\ Returned
        /\ result = <<>>
        /\ trace = <<>>

\* C6: whenever the embedding path fails (obtaining the model, encoding, or
\* the similarity product), _semantic_rerank raises nothing and returns its
\* input list, same elements in the same order.
C6_ProviderFailureLeavesInput ==
    (fpc = "done" /\ in_provider.fail \in ProviderFailures) =>
        /\ ~out.raised
        /\ out.value = in_primary

\* C9: a call that returns for a non-empty query returns the first `limit`
\* documents of rerank(merge(primary, fallback)); the fallback find was
\* issued at most once, after the primary find, and it was issued exactly
\* when the primary find was unsupported (no text index) or yielded fewer
\* than `limit` documents.
C9_ResultIsRerankOfMergeCut ==
    (Returned /\ Len(query) > 0) =>
        /\ result = Take(RerankedAs(_merge_documents(primary_seen.docs,
                                                     fallback_seen.docs),
                                    provider_seen), limit)
        /\ Count(trace, "fallback") <= 1
        /\ Issued("fallback") <=>
              (\/ primary_seen.status = "no_text_index"
               \/ (primary_seen.status = "ok" /\ Len(primary_seen.docs) < limit))
        /\ \A i, j \in 1..Len(trace) :
              (trace[i] = "primary" /\ trace[j] = "fallback") => i < j

\* C10: concurrent first use of _get_embedding_model runs the constructor at
\* most once, and all callers that have returned hold the same instance.
C10_ModelConstructedOnce ==
    /\ constructed <= 1
    /\ \A t, u \in Threads :
          (tpc[t] = "returned" /\ tpc[u] = "returned") => got[t] = got[u]

\* the fallback document at position j is one the merge keeps
KeptFromFallback(primary, fallback, j) ==
    LET d == fallback[j]
    IN  IF HasStrId(d)
        THEN /\ \A i \in 1..Len(primary) : primary[i]._id # d._id
             /\ \A k \in 1..(j - 1) : fallback[k]._id # d._id
        ELSE /\ \A i \in 1..Len(primary) : primary[i] # d
             /\ \A k \in 1..(j - 1) : fallback[k] # d

\* C7: _merge_documents(primary, fallback) is primary itself when fallback is
\* empty, and otherwise primary, unchanged and in order, followed in fallback
\* order by exactly the fallback documents whose _id occurs neither in
\* primary nor earlier in fallback, a document without _id counting as seen
\* when an equal document does.
C7_MergeIsPrimaryThenUnseenFallback ==
    (fpc = "done") =>
        LET kept == { j \in 1..Len(in_secondary) :
                        KeptFromFallback(in_primary, in_secondary, j) }
            nth(n) == CHOOSE j \in kept : Cardinality({ k \in kept : k <= j }) = n
        IN  /\ (in_secondary = <<>>) => (out = in_primary)
            /\ Len(out) = Len(in_primary) + Cardinality(kept)
            /\ SubSeq(out, 1, Len(in_primary)) = in_primary
            /\ \A n \in 1..Cardinality(kept) :
                  out[Len(in_primary) + n] = in_secondary[nth(n)]

\* a merge that drops one fallback document and appends another
C7_Witness ==
    /\ fpc = "done"
    /\ in_provider = NotCalled
    /\ Len(in_primary) > 0
    /\ Len(out) > Len(in_primary)
    /\ Len(out) < Len(in_primary) + Len(in_secondary)

\* C8: with similarity scores delivered, _semantic_rerank returns the input
\* documents permuted into non-increasing score order, documents of equal
\* score in their incoming order; a list of length 0 or 1 is returned as it
\* is and the embedding provider is not called.
C8_RerankIsStableDescendingSort ==
    (fpc = "done" /\ in_provider # NotCalled) =>
        LET n == Len(in_primary)
            sc == in_provider.scores
        IN  /\ (n <= 1) => (out = [raised |-> FALSE, value |-> in_primary,
                                   called |-> FALSE])
            /\ (n > 1 /\ in_provider.fail = "no") =>
                  /\ ~out.raised
                  /\ out.called
                  /\ \E p \in Permutations(1..n) :
                        /\ out.value = [i \in 1..n |-> in_primary[p[i]]]
                        /\ \A i, j \in 1..n :
                              (i < j) => \/ sc[p[i]] > sc[p[j]]
                                         \/ (sc[p[i]] = sc[p[j]] /\ p[i] < p[j])

\* a rerank that reorders its input while two different documents tie
C8_Witness ==
    /\ fpc = "done"
    /\ in_provider.fail = "no"
    /\ Len(in_primary) > 2
    /\ ~out.raised
    /\ out.value # in_primary
    /\ \E i, j \in 1..Len(in_primary) :
          /\ i < j
          /\ in_provider.scores[i] = in_provider.scores[j]
          /\ in_primary[i] # in_primary[j]

\* C11: whatever search_cases and close calls came before and whichever
\* connection attempts failed, the instance holds a client only when it
\* holds a collection too; so a call with a non-empty query that finds the
\* store unreachable never reaches the find without a collection, and ends
\* in RepositoryError on every call, not in another exception.
C11_ClientOnlyWithCollection ==
    /\ (client # "None") => (handle # "None")
    /\ (pc = "primary") => (handle # "None")
    /\ (pc = "done" /\ Len(query) > 0 /\ ~Issued("primary") /\ handle = "None"
            /\ outcome # "returned")
          => outcome = "RepositoryError"

====
